---- MODULE Spec2Model ----
(***************************************************************************)
(* OServers: the lifecycle of the four server slots of OServersApp         *)
(* (src/gui/app.rs), the shared ServerState with its bounded log           *)
(* (src/servers/mod.rs) and the four runtime tasks                         *)
(* (src/servers/{http,ftp,tftp,ssh}.rs).                                   *)
(*                                                                         *)
(* The GUI thread runs update() frame by frame; every runtime task runs on *)
(* the tokio runtime, concurrently with the GUI thread.  One action of the *)
(* model is one critical section (one acquisition of the slot's RwLock) or *)
(* one channel operation, so every interleaving the locks allow is here.   *)
(***************************************************************************)
EXTENDS Integers, Sequences, FiniteSets, TLC

\* ------------------------------------------------------------------ bounds
MaxTasks == 2        \* runtime tasks spawned in one behaviour, all slots together
MaxRequests == 1     \* HTTP requests logged in one behaviour
MaxAppends == 103    \* add_log calls on one buffer under SpecLog
MixedPrefix == 3     \* under SpecLog, the first MixedPrefix entries take any level
MaxSignals == 2      \* under SpecHandle, signals one channel accepts before the caller stops calling

\* ------------------------------------------------------- program constants
LogCap == 100        \* "Keep only last 100 messages"
None == 0            \* Option::None of shutdown_tx; Some(k) is the sender of task k's channel

Slots == {"Http", "Ftp", "Tftp", "Ssh"}

VARIABLES
    state,        \* state[i]: the slot's ServerState, [status, logs]
    shutdown_tx,  \* shutdown_tx[i]: Option<mpsc::Sender<()>> of ServerEntry i
    tasks,        \* every task spawned so far, in spawn order; tasks[k] owns channel k
    ui,           \* the GUI thread: where it is in update() / stop_server()
    requests,     \* HTTP requests logged so far
    appended,     \* history: appended[i] is every entry ever passed to add_log on slot i
    write_guard,  \* the slot whose state.write() guard is held inside add_log, or ""
    snapshot      \* the Vec last returned by ServerEntry::logs() to the observer

vars == <<state, shutdown_tx, tasks, ui, requests, appended, write_guard, snapshot>>

\* ----------------------------------------------------------- ServerStatus
Stopped  == [tag |-> "Stopped",  reason |-> ""]
Starting == [tag |-> "Starting", reason |-> ""]
Running  == [tag |-> "Running",  reason |-> ""]
Stopping == [tag |-> "Stopping", reason |-> ""]
Error(r) == [tag |-> "Error",    reason |-> r]

\* ------------------------------------------------------------- LogMessage
\* run is not a field of the program's LogMessage: it names the task that
\* built the entry (0 for an entry built outside a task).
LogMessage_info(m, k)  == [level |-> "Info",  message |-> m, run |-> k]
LogMessage_error(m, k) == [level |-> "Error", message |-> m, run |-> k]

Min(a, b) == IF a < b THEN a ELSE b

\* The last n elements of s.
LastN(s, n) == SubSeq(s, Len(s) - n + 1, Len(s))

\* s without its element at position p.
RemoveAt(s, p) == SubSeq(s, 1, p - 1) \o SubSeq(s, p + 1, Len(s))

\* ------------------------------------------------------------ mutants of add_log
add_log_no_evict(logs, msg) == Append(logs, msg)

add_log_keep_errors(logs, msg) ==
    LET pushed == Append(logs, msg)
        infos  == {p \in 1..Len(pushed) : pushed[p].level = "Info"}
        victim == IF infos = {} THEN 1 ELSE CHOOSE p \in infos : \A q \in infos : p <= q
    IN  IF Len(pushed) > LogCap THEN RemoveAt(pushed, victim) ELSE pushed

\* ServerState::add_log: push, then drop the oldest entry when over 100.
add_log(logs, msg) ==
    LET pushed == Append(logs, msg)
    IN  IF Len(pushed) > LogCap THEN RemoveAt(pushed, 1) ELSE pushed

\* Consecutive add_log calls made under one write lock.
RECURSIVE add_logs(_, _)
add_logs(logs, msgs) ==
    IF msgs = <<>> THEN logs ELSE add_logs(add_log(logs, Head(msgs)), Tail(msgs))

\* ------------------------------------------------------------ mutant of is_running
is_running_never(status) == FALSE

\* ServerEntry::is_running: matches!(status, Running).
is_running(status) == status.tag = "Running"

\* ------------------------------------------------------------ mutant of take
take_keeps(opt) == opt

\* Option::take: what is left in the Option after shutdown_tx.take().
take(opt) == None

\* ------------------------------------------------------------ state writes
\* The critical section as it would be if the four entries shared one status
\* cell: the status write lands in every slot (a broken variant, used to test C13).
WriteStatus_shared(i, st, msgs) ==
    /\ state' = [j \in Slots |->
                   [status |-> st,
                    logs |-> IF j = i THEN add_logs(state[j].logs, msgs) ELSE state[j].logs]]
    /\ appended' = [appended EXCEPT ![i] = @ \o msgs]

\* One critical section `let mut s = state.write(); s.status = st; s.add_log(..)*`.
WriteStatus(i, st, msgs) ==
    /\ state' = [state EXCEPT ![i] = [status |-> st, logs |-> add_logs(@.logs, msgs)]]
    /\ appended' = [appended EXCEPT ![i] = @ \o msgs]

\* One critical section that only appends: `state.write().add_log(..)`.
WriteLogs(i, msgs) ==
    /\ state' = [state EXCEPT ![i].logs = add_logs(@, msgs)]
    /\ appended' = [appended EXCEPT ![i] = @ \o msgs]

\* ------------------------------------------------------------ tasks and channels
\* A freshly spawned task with its mpsc::channel(1): nothing queued, both ends alive.
NewTask(i) ==
    [slot |-> i, pc |-> "spawned", result |-> "none",
     queued |-> 0, tx |-> TRUE, rx |-> TRUE, sends |-> 0,
     bound |-> FALSE, timer |-> "none"]

TaskIds == 1..Len(tasks)

Alive(k) == tasks[k].pc # "done"

AliveIn(i) == {k \in TaskIds : tasks[k].slot = i /\ Alive(k)}

\* Some task of slot i holds the slot's listening port.  (Another slot set to
\* the same port, like any other process on it, is an outcome of TaskBindFail.)
PortHeld(i) == \E k \in TaskIds : tasks[k].slot = i /\ tasks[k].bound

\* Dropping the Sender of channel k (k = None: nothing to drop).
DropSender(ts, k) == IF k = None THEN ts ELSE [ts EXCEPT ![k].tx = FALSE]

\* try_send as it would be on an unbounded channel: Ok whenever the receiver
\* is alive (a broken variant, used to test C32).
TrySendOk_unbounded(k) == tasks[k].rx

\* Sender::try_send(()) on channel k: Ok iff the receiver is alive and the
\* one-slot buffer is free.
TrySendOk(k) == tasks[k].rx /\ tasks[k].queued < 1

\* Receiver::recv() is ready: a message is queued (Some) or every sender is gone (None).
RecvReady(k) == tasks[k].queued > 0 \/ ~tasks[k].tx

\* ------------------------------------------------------------ the GUI thread's record
\* pc: "idle" between frames, "frame" inside update() with the buttons drawn,
\*     "stop_write" inside stop_server between try_send and the status write,
\*     "closed" once the window was closed and the process is gone.
\* idx, is_running: the frame's slot and the value of is_running() it read.
\* took, sent, pre: inside stop_server, the Option taken from shutdown_tx, the
\*     channel the signal was queued on (None: nothing queued) and the status
\*     tag read when stop_server was entered (history).
\* ret: "early" when the start_server call just made took its early return,
\*     "stopped" when the call just made was stop_server (history).
Idle(ret) ==
    [pc |-> "idle", idx |-> "Http", is_running |-> FALSE,
     took |-> None, sent |-> None, pre |-> "Stopped", ret |-> ret]

\* ------------------------------------------------------------ Init
\* ServerEntry::new for every ServerType: Stopped, no logs, no sender.
Init ==
    /\ state = [i \in Slots |-> [status |-> Stopped, logs |-> <<>>]]
    /\ shutdown_tx = [i \in Slots |-> None]
    /\ tasks = <<>>
    /\ ui = Idle("")
    /\ requests = 0
    /\ appended = [i \in Slots |-> <<>>]
    /\ write_guard = ""
    /\ snapshot = <<>>

\* ------------------------------------------------------------ the GUI thread
\* eframe::App::update, up to the buttons: one frame selects a slot, reads its
\* status once (is_running) and shows Stop when it was Running, Start otherwise.
\* A frame in which nothing is clicked is followed by the next frame.
Update(idx) ==
    /\ ui.pc \in {"idle", "frame"}
    /\ ui' = [Idle("") EXCEPT !.pc = "frame", !.idx = idx,
                              !.is_running = is_running(state[idx].status)]
    /\ UNCHANGED <<state, shutdown_tx, tasks, requests, appended, write_guard, snapshot>>

\* start_server as it would be if it kept a sender already stored instead of
\* storing the new one (a broken variant, used to test C27).
start_server_keeps_sender(idx) ==
    /\ ui.pc = "frame" /\ ui.idx = idx /\ ~ui.is_running
    /\ IF is_running(state[idx].status)
       THEN /\ UNCHANGED <<shutdown_tx, tasks>>
            /\ ui' = Idle("early")
       ELSE /\ Len(tasks) < MaxTasks
            /\ tasks' = Append(tasks, [NewTask(idx) EXCEPT !.tx = shutdown_tx[idx] = None])
            /\ shutdown_tx' = [shutdown_tx EXCEPT ![idx] = IF @ = None THEN Len(tasks) + 1 ELSE @]
            /\ ui' = Idle("")
    /\ UNCHANGED <<state, requests, appended, write_guard, snapshot>>

\* OServersApp::start_server, called when Start was clicked.  It returns early
\* only when the status read now is Running; otherwise it makes a channel,
\* stores the sender (dropping the one stored before) and spawns the runtime.
\* It takes no lock but the read lock of is_running and writes no status.
\* The config it hands to the task is read by the task alone;
\* auto_stop_seconds is drawn where the task first uses it (TaskBind).
start_server(idx) ==
    /\ ui.pc = "frame" /\ ui.idx = idx /\ ~ui.is_running
    /\ IF is_running(state[idx].status)
       THEN /\ UNCHANGED <<shutdown_tx, tasks>>
            /\ ui' = Idle("early")
       ELSE /\ Len(tasks) < MaxTasks
            /\ tasks' = Append(DropSender(tasks, shutdown_tx[idx]), NewTask(idx))
            /\ shutdown_tx' = [shutdown_tx EXCEPT ![idx] = Len(tasks) + 1]
            /\ ui' = Idle("")
    /\ UNCHANGED <<state, requests, appended, write_guard, snapshot>>

\* OServersApp::stop_server, first half, called when Stop was clicked:
\* `if let Some(tx) = entry.shutdown_tx.take() { let _ = tx.try_send(()); }`.
\* The taken sender is dropped at the end of the block.
stop_server_send(idx) ==
    /\ ui.pc = "frame" /\ ui.idx = idx /\ ui.is_running
    /\ LET tx   == shutdown_tx[idx]
           ok   == tx # None /\ TrySendOk(tx)
           sent == IF ok THEN [tasks EXCEPT ![tx].queued = @ + 1, ![tx].sends = @ + 1]
                         ELSE tasks
       IN  /\ tasks' = DropSender(sent, tx)
           /\ ui' = [ui EXCEPT !.pc = "stop_write",
                               !.took = tx,
                               !.sent = IF ok THEN tx ELSE None,
                               !.pre = state[idx].status.tag]
    /\ shutdown_tx' = [shutdown_tx EXCEPT ![idx] = take(@)]
    /\ UNCHANGED <<state, requests, appended, write_guard, snapshot>>

\* stop_server as it would be if it waited for the task it signalled: the
\* status is written once that task has returned (a broken variant, used to
\* test C26).
stop_server_write_joins ==
    /\ ui.pc = "stop_write"
    /\ ui.sent # None => ~Alive(ui.sent)
    /\ state' = [state EXCEPT ![ui.idx].status = Stopping]
    /\ ui' = Idle("stopped")
    /\ UNCHANGED <<shutdown_tx, tasks, requests, appended, write_guard, snapshot>>

\* The variant that also logs the request (a broken variant, used to test C28).
stop_server_write_logs ==
    /\ ui.pc = "stop_write"
    /\ WriteStatus(ui.idx, Stopping, <<LogMessage_info("Stopping", None)>>)
    /\ ui' = Idle("stopped")
    /\ UNCHANGED <<shutdown_tx, tasks, requests, write_guard, snapshot>>

\* OServersApp::stop_server, second half: `entry.state.write().status = Stopping`,
\* whatever the status is by now.
stop_server_write ==
    /\ ui.pc = "stop_write"
    /\ state' = [state EXCEPT ![ui.idx].status = Stopping]
    /\ ui' = Idle("stopped")
    /\ UNCHANGED <<shutdown_tx, tasks, requests, appended, write_guard, snapshot>>

\* eframe::App::update, last statement, in a frame whose viewport has
\* close_requested: `self.save_config()` and nothing else; no stop_server is
\* called and no status is written.  eframe then leaves run_native, main
\* returns and the process, with its runtime and tasks, is gone.
close_requested ==
    /\ ui.pc \in {"idle", "frame"}
    /\ ui' = [Idle("") EXCEPT !.pc = "closed"]
    /\ UNCHANGED <<state, shutdown_tx, tasks, requests, appended, write_guard, snapshot>>

\* ------------------------------------------------------------ the runtime tasks
\* A task steps while the process lives; what no task step touches.
TaskStep(k) == ui.pc # "closed" /\ UNCHANGED <<shutdown_tx, ui, write_guard, snapshot>>

\* The function returns (or unwinds): its Receiver and its listener are dropped.
Return(k, res) ==
    [tasks EXCEPT ![k].pc = "done", ![k].result = res, ![k].rx = FALSE, ![k].bound = FALSE]

\* The runtime as it would be without its first block: nothing is written
\* before setup begins (a broken variant, used to test C22).
TaskStarting_skipped(k) ==
    /\ tasks[k].pc = "spawned"
    /\ tasks' = [tasks EXCEPT ![k].pc = "setup"]
    /\ TaskStep(k)
    /\ UNCHANGED <<state, appended, requests>>

\* {http,ftp,tftp,ssh}::start_server, first critical section:
\* status = Starting and the "Starting ... server" entry.
TaskStarting(k) ==
    /\ tasks[k].pc = "spawned"
    /\ WriteStatus(tasks[k].slot, Starting, <<LogMessage_info("Starting", k)>>)
    /\ tasks' = [tasks EXCEPT ![k].pc = "setup"]
    /\ TaskStep(k)
    /\ UNCHANGED requests

\* Setup fails before any bind.
\* tftp: TftpServerBuilder::with_dir_ro is Err: status = Error and an Error entry.
\* ftp:  Server::build() is Err: `?` returns it, no status and no entry is written.
TaskSetupFail(k) ==
    /\ tasks[k].pc = "setup"
    /\ tasks[k].slot \in {"Tftp", "Ftp"}
    /\ IF tasks[k].slot = "Tftp"
       THEN WriteStatus("Tftp", Error("create"), <<LogMessage_error("create", k)>>)
       ELSE UNCHANGED <<state, appended>>
    /\ tasks' = Return(k, "err")
    /\ TaskStep(k)
    /\ UNCHANGED requests

\* The listener is bound: the port is free (no task of the slot holds it).
\* tftp: builder.bind(addr).build().await is Ok, before Running is written.
\* ftp:  inside server.listen(addr), first polled by select! after Running was written.
\* http: bind_with_graceful_shutdown, after Running was written; then the
\*       auto-stop timer is spawned when auto_stop_seconds is Some.
TaskBind(k) ==
    /\ \/ tasks[k].slot = "Tftp" /\ tasks[k].pc = "setup"
       \/ tasks[k].slot \in {"Ftp", "Http"} /\ tasks[k].pc = "listen"
    /\ ~PortHeld(tasks[k].slot)
    /\ \E auto_stop \in (IF tasks[k].slot = "Http" THEN BOOLEAN ELSE {FALSE}) :
          tasks' = [tasks EXCEPT ![k].bound = TRUE,
                                 ![k].pc = IF tasks[k].slot = "Tftp" THEN "ready" ELSE "serving",
                                 ![k].timer = IF auto_stop THEN "armed" ELSE @]
    /\ TaskStep(k)
    /\ UNCHANGED <<state, appended, requests>>

\* The bind fails: the port is held by a task of this slot or by anything else
\* on the machine, or may not be bound by this user.
\* tftp: status = Error and an Error entry, Err returned.
\* ftp:  listen returns Err: status = Error and an Error entry, Err returned.
\* http: bind_with_graceful_shutdown panics; the task unwinds and writes nothing.
TaskBindFail(k) ==
    /\ \/ tasks[k].slot = "Tftp" /\ tasks[k].pc = "setup"
       \/ tasks[k].slot \in {"Ftp", "Http"} /\ tasks[k].pc = "listen"
    /\ IF tasks[k].slot = "Http"
       THEN /\ tasks' = Return(k, "panic")
            /\ UNCHANGED <<state, appended>>
       ELSE /\ tasks' = Return(k, "err")
            /\ WriteStatus(tasks[k].slot, Error("bind"), <<LogMessage_error("bind", k)>>)
    /\ TaskStep(k)
    /\ UNCHANGED requests

\* The entries of the "Update status to running" critical section.  The
\* configs' flags decide only which text is logged; they are taken as the
\* Default impls give them: allow_directory_listing (http) and
\* anonymous_access (ftp) true, read_only (tftp) false.
RunningLogs(k) ==
    LET t == [slot |-> tasks[k].slot, flag |-> tasks[k].slot \in {"Http", "Ftp"}]
        started == LogMessage_info("started", k)
        root    == LogMessage_info("root", k)
    IN  CASE t.slot = "Ssh"  -> <<started, root, LogMessage_info("simplified mode", k)>>
          [] t.slot = "Tftp" -> <<started, root,
                                  LogMessage_info(IF t.flag THEN "read-only" ELSE "read-write", k)>>
          [] t.slot = "Ftp"  -> <<started, root>>
                                \o (IF t.flag THEN <<LogMessage_info("anonymous", k)>> ELSE <<>>)
                                \o <<LogMessage_info("mode", k)>>
          [] t.slot = "Http" -> <<started, root>>
                                \o (IF t.flag THEN <<LogMessage_info("listing", k)>> ELSE <<>>)

\* status = Running and the "started" entries, in one critical section.
\* ssh, http, ftp: straight after Starting; tftp: after the bind.
TaskRunning(k) ==
    /\ \/ tasks[k].slot = "Tftp" /\ tasks[k].pc = "ready"
       \/ tasks[k].slot # "Tftp" /\ tasks[k].pc = "setup"
    /\ WriteStatus(tasks[k].slot, Running, RunningLogs(k))
    /\ tasks' = [tasks EXCEPT ![k].pc = IF tasks[k].slot \in {"Ftp", "Http"}
                                        THEN "listen" ELSE "serving"]
    /\ TaskStep(k)
    /\ UNCHANGED requests

\* The Err branch as it would be without its add_log call: the status is set
\* and nothing is appended (a broken variant, used to test C23).
TaskServeError_silent(k) ==
    /\ tasks[k].slot \in {"Tftp", "Ftp"}
    /\ tasks[k].pc = "serving"
    /\ state' = [state EXCEPT ![tasks[k].slot].status = Error("serve")]
    /\ tasks' = Return(k, "err")
    /\ TaskStep(k)
    /\ UNCHANGED <<appended, requests>>

\* tftp, ftp: the serve/listen branch of select! ends with Err while serving:
\* status = Error and an Error entry, Err returned.
TaskServeError(k) ==
    /\ tasks[k].slot \in {"Tftp", "Ftp"}
    /\ tasks[k].pc = "serving"
    /\ WriteStatus(tasks[k].slot, Error("serve"), <<LogMessage_error("serve", k)>>)
    /\ tasks' = Return(k, "err")
    /\ TaskStep(k)
    /\ UNCHANGED requests

\* recv() completes but the serving future, and the listener it owns, is kept
\* alive until the function returns (a broken variant, used to test C16).
TaskRecv_keeps_listener(k) ==
    /\ \/ tasks[k].pc = "serving"
       \/ tasks[k].slot = "Ftp" /\ tasks[k].pc = "listen"
    /\ RecvReady(k)
    /\ tasks' = [tasks EXCEPT ![k].queued = 0,
                              ![k].pc = IF tasks[k].slot = "Http" THEN "draining" ELSE "unwinding"]
    /\ TaskStep(k)
    /\ UNCHANGED <<state, appended, requests>>

\* shutdown_rx.recv() completes: with the signal, or with None once the sender
\* is gone.  ssh awaits it alone; tftp and ftp in select!, which then drops
\* the serving future and with it the listener (ftp's select! may take this
\* branch before listen has bound); http inside the graceful-shutdown future,
\* after which the server drains its connections.
TaskRecv(k) ==
    /\ \/ tasks[k].pc = "serving"
       \/ tasks[k].slot = "Ftp" /\ tasks[k].pc = "listen"
    /\ RecvReady(k)
    /\ tasks' = [tasks EXCEPT ![k].queued = 0,
                              ![k].pc = IF tasks[k].slot = "Http" THEN "draining" ELSE "unwinding",
                              ![k].bound = IF tasks[k].slot = "Http" THEN @ ELSE FALSE]
    /\ TaskStep(k)
    /\ UNCHANGED <<state, appended, requests>>

\* http: `server.await` completes: connections drained, listener dropped.
HttpDrained(k) ==
    /\ tasks[k].pc = "draining"
    /\ tasks' = [tasks EXCEPT ![k].pc = "unwinding", ![k].bound = FALSE]
    /\ TaskStep(k)
    /\ UNCHANGED <<state, appended, requests>>

\* Last critical section: status = Stopped and the "... server stopped" entry; Ok(()).
TaskStopped(k) ==
    /\ tasks[k].pc = "unwinding"
    /\ WriteStatus(tasks[k].slot, Stopped, <<LogMessage_info("stopped", k)>>)
    /\ tasks' = Return(k, "ok")
    /\ TaskStep(k)
    /\ UNCHANGED requests

\* http: the warp::log::custom callback, once per request served:
\* `log_state.write().add_log(LogMessage::info(msg))`.
HttpRequestLog(k) ==
    /\ tasks[k].slot = "Http"
    /\ tasks[k].pc \in {"serving", "draining"}
    /\ requests < MaxRequests
    /\ requests' = requests + 1
    /\ WriteLogs("Http", <<LogMessage_info("request", k)>>)
    /\ TaskStep(k)
    /\ UNCHANGED tasks

\* The timer as its name suggests it: on expiry while Running it also marks
\* the slot Stopping (a broken variant, used to test C24).
AutoStopTimer_stops(k) ==
    /\ tasks[k].timer = "armed"
    /\ tasks' = [tasks EXCEPT ![k].timer = "fired"]
    /\ IF state["Http"].status.tag = "Running"
       THEN WriteStatus("Http", Stopping, <<LogMessage_info("Auto-stopping", k)>>)
       ELSE UNCHANGED <<state, appended>>
    /\ TaskStep(k)
    /\ UNCHANGED requests

\* http: the spawned auto-stop timer wakes up: under the write lock, when the
\* status is Running it appends "Auto-stopping ..."; it does nothing else.
AutoStopTimer(k) ==
    /\ tasks[k].timer = "armed"
    /\ tasks' = [tasks EXCEPT ![k].timer = "fired"]
    /\ IF state["Http"].status.tag = "Running"
       THEN WriteLogs("Http", <<LogMessage_info("Auto-stopping", k)>>)
       ELSE UNCHANGED <<state, appended>>
    /\ TaskStep(k)
    /\ UNCHANGED requests

\* ------------------------------------------------------------ the program
Next ==
    \/ \E idx \in Slots : Update(idx)
    \/ \E idx \in Slots : start_server(idx)
    \/ \E idx \in Slots : stop_server_send(idx)
    \/ stop_server_write
    \/ close_requested
    \/ \E k \in TaskIds : TaskStarting(k)
    \/ \E k \in TaskIds : TaskSetupFail(k)
    \/ \E k \in TaskIds : TaskBind(k)
    \/ \E k \in TaskIds : TaskBindFail(k)
    \/ \E k \in TaskIds : TaskRunning(k)
    \/ \E k \in TaskIds : TaskServeError(k)
    \/ \E k \in TaskIds : TaskRecv(k)
    \/ \E k \in TaskIds : HttpDrained(k)
    \/ \E k \in TaskIds : TaskStopped(k)
    \/ \E k \in TaskIds : HttpRequestLog(k)
    \/ \E k \in TaskIds : AutoStopTimer(k)

Spec == Init /\ [][Next]_vars

\* ------------------------------------------------------------ the log buffer alone
\* Some holder of the slot's SharedState calls add_log with an entry of level
\* lvl; the n-th entry appended to a buffer carries the text n, so that any
\* two entries differ.  One buffer is filled in a behaviour.
AddLogCall(i, lvl) ==
    /\ Len(appended[i]) < MaxAppends
    /\ \A j \in Slots \ {i} : appended[j] = <<>>
    /\ lvl = "Info" \/ Len(appended[i]) < MixedPrefix
    /\ WriteLogs(i, <<[level |-> lvl, message |-> Len(appended[i]) + 1, run |-> None]>>)
    /\ UNCHANGED <<shutdown_tx, tasks, ui, requests, write_guard, snapshot>>

NextLog == \E i \in Slots, lvl \in {"Info", "Error"} : AddLogCall(i, lvl)

SpecLog == Init /\ [][NextLog]_vars

\* ------------------------------------------------------------ the log buffer and its lock
\* RwLock::read as it would be without the lock: it never waits for a writer
\* (a broken variant, used to test C17).
read_allowed_always(i) == TRUE

\* The names under which a write guard of slot i's SharedState is held: the
\* slot's own name by its runtime task (or by whoever calls add_log), and for
\* HTTP also by the auto-stop timer task and by the request-log callback.
GuardsOf(i) == {i} \cup (IF i = "Http" THEN {"Http.timer", "Http.request"} ELSE {})

\* RwLock::read on slot i's SharedState returns only while no write guard of
\* that lock is held.
read_allowed(i) == write_guard \notin GuardsOf(i)

\* add_log, first statement, under a freshly taken write guard:
\* `self.logs.push(msg)`; the Vec may now hold 101 entries.
add_log_push(i) ==
    /\ write_guard = ""
    /\ Len(appended[i]) < MaxAppends
    /\ \A j \in Slots \ {i} : appended[j] = <<>>
    /\ LET msg == [level |-> "Info", message |-> Len(appended[i]) + 1, run |-> None]
       IN  /\ state' = [state EXCEPT ![i].logs = Append(@, msg)]
           /\ appended' = [appended EXCEPT ![i] = Append(@, msg)]
    /\ write_guard' = i
    /\ UNCHANGED <<shutdown_tx, tasks, ui, requests, snapshot>>

\* add_log, second statement: `if self.logs.len() > 100 { self.logs.remove(0) }`,
\* then the write guard is dropped.
add_log_evict(i) ==
    /\ write_guard = i
    /\ state' = [state EXCEPT ![i].logs = IF Len(@) > LogCap THEN RemoveAt(@, 1) ELSE @]
    /\ write_guard' = ""
    /\ UNCHANGED <<shutdown_tx, tasks, ui, requests, appended, snapshot>>

\* ServerEntry::logs(): `self.state.read().logs.clone()`, the whole Vec copied
\* under the read guard.
logs_read(i) ==
    /\ read_allowed(i)
    /\ snapshot' = state[i].logs
    /\ UNCHANGED <<state, shutdown_tx, tasks, ui, requests, appended, write_guard>>

NextRead == \E i \in Slots : add_log_push(i) \/ add_log_evict(i) \/ logs_read(i)

SpecRead == Init /\ [][NextRead]_vars

\* ------------------------------------------------------------ the runtimes, lock by lock
\* The runtime functions statement by statement, as far as the slot's lock and
\* the suspension points go.  An op is one of
\*   lock    `let mut s = state.write();`
\*   write   `s.status = ..; s.add_log(..)*` under the guard
\*   log     `s.add_log(..)` under the guard; when_running: only if status is Running
\*   unlock  the closing brace of the block that holds the guard
\*   call    a synchronous call that may fail; err: where the failure continues
\*   await   a suspension point (.await, select!); err: where an Err continues, 0: nowhere
\*   spawn   tokio::spawn of the auto-stop timer (when auto_stop_seconds is Some)
\*   return  the function returns or unwinds; every guard it still holds is dropped
OpLock == [op |-> "lock"]
OpUnlock == [op |-> "unlock"]
OpWrite(st, text) == [op |-> "write", status |-> st, text |-> text]
OpLog(text, when_running) == [op |-> "log", text |-> text, when_running |-> when_running]
OpCall(err) == [op |-> "call", err |-> err]
OpAwait(err) == [op |-> "await", err |-> err]
OpSpawn == [op |-> "spawn"]
OpReturn == [op |-> "return"]

\* `{ let mut s = state.write(); s.status = st; s.add_log(..); }`
Block(st, text) == <<OpLock, OpWrite(st, text), OpUnlock>>

\* `let mut s = state.write(); s.status = Error(..); s.add_log(..); return Err(..)`
ErrorExit(text) == <<OpLock, OpWrite(Error(text), text), OpReturn>>

\* ssh::start_server.
SshScript ==
    Block(Starting, "Starting") \o Block(Running, "started")
    \o <<OpAwait(0)>>                                   \* 7: shutdown_rx.recv().await
    \o Block(Stopped, "stopped") \o <<OpReturn>>

\* http::start_server.
HttpScript ==
    Block(Starting, "Starting") \o Block(Running, "started")
    \o <<OpCall(13)>>                                   \* 7: bind_with_graceful_shutdown, may panic
    \o <<OpSpawn>>                                      \* 8: the auto-stop timer
    \o <<OpAwait(0)>>                                   \* 9: server.await
    \o Block(Stopped, "stopped") \o <<OpReturn>>        \* 10-12, 13

\* ftp::start_server.
FtpScript ==
    Block(Starting, "Starting")
    \o <<OpCall(12)>>                                   \* 4: build()?, the Err is returned
    \o Block(Running, "started")                        \* 5-7
    \o <<OpAwait(13)>>                                  \* 8: select! { listen, recv }
    \o Block(Stopped, "stopped") \o <<OpReturn>>        \* 9-11, 12
    \o ErrorExit("serve")                               \* 13-15

\* tftp::start_server.
TftpScript ==
    Block(Starting, "Starting")
    \o <<OpCall(17)>>                                   \* 4: with_dir_ro
    \o <<OpAwait(14)>>                                  \* 5: builder.bind(addr).build().await
    \o Block(Running, "started")                        \* 6-8
    \o <<OpAwait(20)>>                                  \* 9: select! { serve, recv }
    \o Block(Stopped, "stopped") \o <<OpReturn>>        \* 10-12, 13
    \o ErrorExit("bind")                                \* 14-16
    \o ErrorExit("create")                              \* 17-19
    \o ErrorExit("serve")                               \* 20-22

\* http: the spawned timer task.
TimerScript ==
    <<OpAwait(0), OpLock, OpLog("Auto-stopping", TRUE), OpUnlock, OpReturn>>

\* http: the warp::log::custom callback, `log_state.write().add_log(..)`: the
\* guard is a temporary of the statement.
RequestScript == <<OpLock, OpLog("request", FALSE), OpUnlock, OpReturn>>

\* The script a task of SpecLock runs, the name it holds the guard under,
\* and the op it is at (pc 0: the task is over).
Script(t) ==
    CASE t.kind = "timer" -> TimerScript
      [] t.kind = "request" -> RequestScript
      [] t.slot = "Http" -> HttpScript
      [] t.slot = "Ftp" -> FtpScript
      [] t.slot = "Tftp" -> TftpScript
      [] OTHER -> SshScript

Holder(t) ==
    CASE t.kind = "timer" -> "Http.timer"
      [] t.kind = "request" -> "Http.request"
      [] OTHER -> t.slot

OpAt(k) == IF tasks[k].pc = 0 THEN [op |-> "over"] ELSE Script(tasks[k])[tasks[k].pc]

LockTask(i, kind) == [slot |-> i, kind |-> kind, pc |-> 1]

\* What the steps of SpecLock leave alone.
LockStep == UNCHANGED <<shutdown_tx, ui, requests, snapshot>>

\* The guard as it would be if `let mut s = state.write();` stood in the
\* function body and not in a block of its own: the closing brace drops
\* nothing (a broken variant, used to test C25).
scope_end_keeps(g) == g

\* What is left of guard g at the closing brace of its block: it is dropped.
scope_end(g) == ""

\* runtime.spawn of start_server for slot i (one run in a behaviour).
LockSpawn(i) ==
    /\ tasks = <<>>
    /\ tasks' = <<LockTask(i, "runtime")>>
    /\ UNCHANGED <<state, appended, write_guard>>
    /\ LockStep

\* state.write(): taken when no guard of the lock is held.
DoLock(k) ==
    /\ OpAt(k).op = "lock"
    /\ write_guard = ""
    /\ write_guard' = Holder(tasks[k])
    /\ tasks' = [tasks EXCEPT ![k].pc = @ + 1]
    /\ UNCHANGED <<state, appended>>
    /\ LockStep

\* The statements under the guard.
DoWrite(k) ==
    /\ OpAt(k).op \in {"write", "log"}
    /\ write_guard = Holder(tasks[k])
    /\ LET o == OpAt(k)
           i == tasks[k].slot
           e == IF o.op = "write" /\ o.status.tag = "Error"
                THEN LogMessage_error(o.text, k) ELSE LogMessage_info(o.text, k)
       IN  CASE o.op = "write" -> WriteStatus(i, o.status, <<e>>)
             [] o.op = "log" /\ (~o.when_running \/ state[i].status = Running) -> WriteLogs(i, <<e>>)
             [] OTHER -> UNCHANGED <<state, appended>>
    /\ tasks' = [tasks EXCEPT ![k].pc = @ + 1]
    /\ UNCHANGED write_guard
    /\ LockStep

\* The closing brace of the block.
DoUnlock(k) ==
    /\ OpAt(k).op = "unlock"
    /\ write_guard' = scope_end(write_guard)
    /\ tasks' = [tasks EXCEPT ![k].pc = @ + 1]
    /\ UNCHANGED <<state, appended>>
    /\ LockStep

\* A call returns, or an awaited future completes: Ok, or Err where the code
\* handles one.
DoCallOrAwait(k) ==
    /\ OpAt(k).op \in {"call", "await"}
    /\ \E ok \in BOOLEAN :
          /\ ~ok => OpAt(k).err # 0
          /\ tasks' = [tasks EXCEPT ![k].pc = IF ok THEN @ + 1 ELSE OpAt(k).err]
    /\ UNCHANGED <<state, appended, write_guard>>
    /\ LockStep

\* http: the timer is spawned, or auto_stop_seconds is None; a request is
\* logged by the callback while the server is awaited.
DoSpawn(k) ==
    /\ OpAt(k).op = "spawn"
    /\ \E auto_stop \in BOOLEAN :
          tasks' = [tasks EXCEPT ![k].pc = @ + 1]
                   \o (IF auto_stop THEN <<LockTask("Http", "timer")>> ELSE <<>>)
    /\ UNCHANGED <<state, appended, write_guard>>
    /\ LockStep

DoRequest(k) ==
    /\ tasks[k].kind = "runtime" /\ tasks[k].slot = "Http" /\ OpAt(k).op = "await"
    /\ \A m \in TaskIds : tasks[m].kind # "request"
    /\ tasks' = Append(tasks, LockTask("Http", "request"))
    /\ UNCHANGED <<state, appended, write_guard>>
    /\ LockStep

\* The function returns: its locals, a guard among them, are dropped.
DoReturn(k) ==
    /\ OpAt(k).op = "return"
    /\ tasks' = [tasks EXCEPT ![k].pc = 0]
    /\ write_guard' = IF write_guard = Holder(tasks[k]) THEN "" ELSE write_guard
    /\ UNCHANGED <<state, appended>>
    /\ LockStep

\* The GUI thread reads the slot's logs (ServerEntry::logs) at any time.
LockRead(i) == tasks # <<>> /\ tasks[1].slot = i /\ logs_read(i)

NextLock ==
    \/ \E i \in Slots : LockSpawn(i)
    \/ \E k \in TaskIds : DoLock(k)
    \/ \E k \in TaskIds : DoWrite(k)
    \/ \E k \in TaskIds : DoUnlock(k)
    \/ \E k \in TaskIds : DoCallOrAwait(k)
    \/ \E k \in TaskIds : DoSpawn(k)
    \/ \E k \in TaskIds : DoRequest(k)
    \/ \E k \in TaskIds : DoReturn(k)
    \/ \E i \in Slots : LockRead(i)

SpecLock == Init /\ [][NextLock]_vars

\* ------------------------------------------------------------ ServerHandle
\* One ServerHandle per server type (create_handle), used by some caller that
\* owns it.  shutdown_tx[i] is the handle's private shutdown_tx, tasks[k] the
\* channel k whose sender was handed to set_shutdown_tx (only its channel
\* fields are used), state[i] the handle's state, and ui the caller:
\* pc "frame" just before a request_shutdown call on handle idx, "idle" after
\* it, with ret the bool returned and took the sender it found.
HandleStep == UNCHANGED <<requests, appended, write_guard, snapshot>>

\* ServerHandle::set_shutdown_tx(tx) with the sender of a fresh
\* mpsc::channel(1); a sender stored before is dropped by the assignment.
set_shutdown_tx(i) ==
    /\ Len(tasks) < MaxTasks
    /\ tasks' = Append(DropSender(tasks, shutdown_tx[i]), NewTask(i))
    /\ shutdown_tx' = [shutdown_tx EXCEPT ![i] = Len(tasks) + 1]
    /\ UNCHANGED <<state, ui>>
    /\ HandleStep

\* The caller is about to call request_shutdown on handle i.
HandleCall(i) ==
    /\ ui.pc = "idle"
    /\ \A k \in TaskIds : tasks[k].sends < MaxSignals
    /\ ui' = [Idle("") EXCEPT !.pc = "frame", !.idx = i]
    /\ UNCHANGED <<state, shutdown_tx, tasks>>
    /\ HandleStep

\* ServerHandle::request_shutdown(&self):
\* `if let Some(tx) = &self.shutdown_tx { tx.try_send(()).is_ok() } else { false }`.
request_shutdown(i) ==
    /\ ui.pc = "frame" /\ ui.idx = i
    /\ LET tx == shutdown_tx[i]
           ok == tx # None /\ TrySendOk(tx)
       IN  /\ tasks' = IF ok THEN [tasks EXCEPT ![tx].queued = @ + 1, ![tx].sends = @ + 1]
                             ELSE tasks
           /\ ui' = [Idle(IF ok THEN "true" ELSE "false") EXCEPT !.idx = i, !.took = tx]
    /\ UNCHANGED <<state, shutdown_tx>>
    /\ HandleStep

\* The holder of channel k's receiver consumes the pending signal.
HandleRecv(k) ==
    /\ tasks[k].rx /\ tasks[k].queued > 0
    /\ tasks' = [tasks EXCEPT ![k].queued = 0]
    /\ UNCHANGED <<state, shutdown_tx, ui>>
    /\ HandleStep

\* The receiver of channel k is dropped.
HandleRxDrop(k) ==
    /\ tasks[k].rx
    /\ tasks' = [tasks EXCEPT ![k].rx = FALSE]
    /\ UNCHANGED <<state, shutdown_tx, ui>>
    /\ HandleStep

\* Whoever shares the handle's `pub state` writes a status.
HandleStatus(i, st) ==
    /\ state[i].status # st
    /\ state' = [state EXCEPT ![i].status = st]
    /\ UNCHANGED <<shutdown_tx, tasks, ui>>
    /\ HandleStep

NextHandle ==
    \/ \E i \in Slots : set_shutdown_tx(i)
    \/ \E i \in Slots : HandleCall(i)
    \/ \E i \in Slots : request_shutdown(i)
    \/ \E k \in TaskIds : HandleRecv(k)
    \/ \E k \in TaskIds : HandleRxDrop(k)
    \/ \E i \in Slots, st \in {Running, Stopped} : HandleStatus(i, st)

SpecHandle == Init /\ [][NextHandle]_vars

\* ------------------------------------------------------------ steps, as seen from outside
\* The step is a call of start_server on slot i (the only step from a frame to idle).
StartStep(i) == ui.pc = "frame" /\ ui'.pc = "idle" /\ ui.idx = i

\* The step is the return of stop_server (its status write).
StopReturns == ui.pc = "stop_write" /\ ui'.pc = "idle"

Terminal == {"Stopped", "Error"}

\* ------------------------------------------------------------ claims
\* C1: for every slot, at most one runtime task spawned for that slot is
\* alive (spawned and not yet returned) at any time.
C1_AtMostOneAliveTask == \A i \in Slots : Cardinality(AliveIn(i)) <= 1

\* C2: a start on a slot whose status is Starting or Stopping is rejected: it
\* spawns no task, creates no stop channel and leaves status and logs unchanged.
C2_StartRejectedWhileStartingOrStopping ==
    [][\A i \in Slots :
          (StartStep(i) /\ state[i].status.tag \in {"Starting", "Stopping"})
              => (tasks' = tasks /\ shutdown_tx' = shutdown_tx /\ state' = state)]_vars

\* C3: a start on a slot whose status is Running changes nothing: no task is
\* spawned, the stored sender is not replaced, status and logs are unchanged.
C3_StartWhileRunningChangesNothing ==
    [][\A i \in Slots :
          (StartStep(i) /\ state[i].status.tag = "Running")
              => (tasks' = tasks /\ shutdown_tx' = shutdown_tx /\ state' = state
                  /\ appended' = appended)]_vars

\* C3, witness: start_server was called on a Running slot and returned early.
C3_Witness == ui.ret = "early"

\* The status order of C4: from s the status may next become t.
C4_Allowed(s, t) ==
    \/ t = "Error"
    \/ s \in Terminal /\ t = "Starting"
    \/ s = "Starting" /\ t \in {"Running", "Stopping", "Stopped"}
    \/ s = "Running" /\ t \in {"Stopping", "Stopped"}
    \/ s = "Stopping" /\ t = "Stopped"

\* C4: every change of a slot's status follows
\* Stopped -> Starting -> Running -> Stopping -> Stopped (steps may be skipped,
\* Failed may follow anything); the status never regresses, and never goes
\* from Stopped to Stopping without a start in between.
C4_StatusNeverRegresses ==
    [][\A i \in Slots :
          state'[i].status # state[i].status
              => C4_Allowed(state[i].status.tag, state'[i].status.tag)]_vars

\* C5: in every reachable state each slot's log buffer holds at most 100 entries.
C5_LogAtMostCap == \A i \in Slots : Len(state[i].logs) <= LogCap

\* C5, witness: more than 100 entries were appended to a buffer, which is full.
C5_Witness == \E i \in Slots : Len(appended[i]) > LogCap /\ Len(state[i].logs) = LogCap

\* C6: after N add_log calls on a buffer that started empty, the buffer is
\* the last min(N, 100) appended entries in append order, whatever their level.
C6_LogIsLastEntries ==
    \A i \in Slots : state[i].logs = LastN(appended[i], Min(Len(appended[i]), LogCap))

\* C6, witness: an Error entry, appended before an Info entry, has been evicted.
C6_Witness ==
    \E i \in Slots : /\ Len(appended[i]) > LogCap
                     /\ appended[i][1].level = "Error"
                     /\ appended[i][2].level = "Info"

\* The "stopped" entries task k has appended.
StoppedEntries(k) ==
    {p \in 1..Len(appended[tasks[k].slot]) :
        /\ appended[tasks[k].slot][p].message = "stopped"
        /\ appended[tasks[k].slot][p].run = k}

\* C7: however many times stop is called during a run, the signal is queued
\* on that run's channel at most once, and the run's task appends at most one
\* "stopped" entry.
C7_StopSignalAtMostOnce ==
    \A k \in TaskIds : tasks[k].sends <= 1 /\ Cardinality(StoppedEntries(k)) <= 1

\* C7, witness: a later stop_server finds no sender and queues nothing, while
\* the task signalled by an earlier stop_server of the slot is still alive.
C7_Witness ==
    /\ ui.pc = "stop_write" /\ ui.took = None
    /\ \E k \in TaskIds : tasks[k].slot = ui.idx /\ tasks[k].sends = 1 /\ Alive(k)

\* C8: a stop on a slot whose status is Stopped or Failed is a no-op: it
\* queues no signal for any task and leaves status and logs unchanged.
C8_StopWhileTerminalIsNoOp ==
    [][(StopReturns /\ ui.pre \in Terminal) => (ui.sent = None /\ state' = state)]_vars

\* Every task spawned for slot i has returned from its function (Ok or Err).
AllReturned(i) ==
    \A k \in TaskIds : tasks[k].slot = i => tasks[k].result \in {"ok", "err"}

\* C9: after a stop on a Running slot, with no start since, the status becomes
\* terminal and does not stay Stopping once the task has returned; stated at
\* the point from which nothing but a start can change the status any more:
\* stop_server returns and every task of the slot has returned.
C9_StopEndsTerminal ==
    [][(StopReturns /\ ui.pre = "Running" /\ AllReturned(ui.idx))
          => state'[ui.idx].status.tag \in Terminal]_vars

\* C10: in a run whose stop was requested, Stopping is never written after
\* the task has written Stopped: when stop_server writes Stopping, the task
\* it signalled has not yet written Stopped and returned.
C10_StoppingNotAfterStopped ==
    [][(StopReturns /\ ui.sent # None) => tasks[ui.sent].result # "ok"]_vars

\* The step is a call of start_server on slot i that was accepted (it spawned
\* a task) while the slot was inactive: status Stopped or Failed, no task alive.
AcceptedStart(i) ==
    /\ StartStep(i)
    /\ Len(tasks') > Len(tasks)
    /\ state[i].status.tag \in Terminal
    /\ AliveIn(i) = {}

\* C11: an accepted start moves the slot to Starting within the start call:
\* when start returns, the status is no longer the previous Stopped or Failed.
C11_StartWritesStarting ==
    [][\A i \in Slots : AcceptedStart(i) => state'[i].status.tag \notin Terminal]_vars

\* C12: an accepted start clears the slot's log buffer, so that the buffer
\* holds only entries of the current run: when start returns the buffer is empty.
C12_StartClearsLogs ==
    [][\A i \in Slots : AcceptedStart(i) => state'[i].logs = <<>>]_vars

\* The step changes something that belongs to slot j: its status or logs, its
\* stored sender, or the channel or task of one of its runs.
Touched(j) ==
    \/ state'[j] # state[j]
    \/ shutdown_tx'[j] # shutdown_tx[j]
    \/ appended'[j] # appended[j]
    \/ \E k \in TaskIds : tasks[k].slot = j /\ tasks'[k] # tasks[k]
    \/ \E k \in (1..Len(tasks')) \ TaskIds : tasks'[k].slot = j

\* C13: slots are isolated.  A step of the GUI thread on slot idx (start_server,
\* stop_server) touches no slot but idx, a step of a task touches no slot but
\* the task's own, and no step touches two slots: the status, logs and stop
\* channel of every other slot are left unchanged.
C13_SlotsIsolated ==
    [][\A j \in Slots :
          Touched(j) =>
              /\ \A i \in Slots \ {j} : ~Touched(i)
              /\ ui' # ui => j = ui.idx /\ ui.pc \in {"frame", "stop_write"}
              /\ ui' = ui => \A k \in TaskIds : tasks'[k] # tasks[k] => tasks[k].slot = j]_vars

\* C13, witness: the first run, on one slot, has failed and left that slot
\* Failed; the second run, on another slot, has bound its port and is Running.
C13_Witness ==
    /\ Len(tasks) = 2
    /\ tasks[1].slot # tasks[2].slot
    /\ tasks[1].result = "err"
    /\ state[tasks[1].slot].status.tag = "Error"
    /\ tasks[2].pc = "serving" /\ tasks[2].bound
    /\ state[tasks[2].slot].status.tag = "Running"

\* The step is task k giving up during setup or bind, before it serves
\* (with_dir_ro, build, bind, listen or bind_with_graceful_shutdown failed).
FailsBeforeServing(k) == tasks[k].pc \in {"setup", "listen"} /\ tasks'[k].pc = "done"

\* Task k has written Running: its "started" entry was appended with it.
WroteRunning(k) ==
    \E p \in 1..Len(appended[tasks[k].slot]) :
        appended[tasks[k].slot][p] = LogMessage_info("started", k)

\* C14: for HTTP, FTP and TFTP, when the bind or setup fails the run goes to
\* Failed without ever having written Running.
C14_BindFailureNeverRunning ==
    [][\A k \in TaskIds :
          (FailsBeforeServing(k) /\ tasks[k].slot \in {"Http", "Ftp", "Tftp"})
              => /\ state'[tasks[k].slot].status.tag = "Error"
                 /\ ~WroteRunning(k)]_vars

\* The step is task k terminating with an error: Err returned, or a panic.
TaskFails(k) == tasks[k].result = "none" /\ tasks'[k].result \in {"err", "panic"}

\* C15: whenever a task terminates with an error, the status afterwards is
\* Failed(reason) and the last entry appended is an Error entry with that
\* reason, written by the task; the status is not left at Starting or Running.
C15_FailureWritesErrorAndLog ==
    [][\A k \in TaskIds :
          TaskFails(k)
              => LET i == tasks[k].slot
                 IN  /\ state'[i].status.tag = "Error"
                     /\ appended'[i] # <<>>
                     /\ appended'[i][Len(appended'[i])]
                            = LogMessage_error(state'[i].status.reason, k)]_vars

\* C16: a task writes Stopped only after it has released its listener: at the
\* step that writes Stopped (and returns Ok) the task holds no port.
C16_StoppedAfterRelease ==
    [][\A k \in TaskIds :
          (tasks[k].result = "none" /\ tasks'[k].result = "ok") => ~tasks[k].bound]_vars

\* C16, witness: a run that had bound its port was stopped and wrote
\* Stopped, and the next run of the same slot has bound the port again.
C16_Witness ==
    /\ Len(tasks) = 2
    /\ tasks[1].slot = tasks[2].slot
    /\ tasks[1].slot \in {"Tftp", "Http"}
    /\ tasks[1].result = "ok"
    /\ tasks[2].bound

\* C17: every Vec an observer reads while add_log calls are running is the
\* buffer as it was after some whole number n of add_log calls: the last
\* min(n, 100) entries appended by then, in append order, at most 100 of
\* them; the 101-entry state inside add_log is never read.
C17_ReadsAreWholeSnapshots ==
    /\ Len(snapshot) <= LogCap
    /\ \E i \in Slots : \E n \in 0..Len(appended[i]) :
          snapshot = LastN(SubSeq(appended[i], 1, n), Min(n, LogCap))

\* C17, witness: an add_log call is between its push and its eviction, the
\* Vec holds 101 entries, and the observer holds a full snapshot read before.
C17_Witness ==
    \E i \in Slots : /\ write_guard = i
                     /\ Len(state[i].logs) = LogCap + 1
                     /\ Len(snapshot) = LogCap

\* The last run spawned for slot i has terminated with an error (Err or
\* panic), and no task of the slot is alive.
LastRunFailed(i) ==
    /\ AliveIn(i) = {}
    /\ \E k \in TaskIds : /\ tasks[k].slot = i
                          /\ tasks[k].result \in {"err", "panic"}
                          /\ \A m \in TaskIds : m > k => tasks[m].slot # i

\* C18: after a run of a slot has ended with an error, a start on that slot
\* is accepted: the failed run does not leave the slot in a state in which
\* start_server returns early (its guard, is_running, is false).
C18_FailedRunAllowsRestart ==
    \A i \in Slots : LastRunFailed(i) => ~is_running(state[i].status)

\* C19: on a window close request, stop is called on every slot with an active
\* run: after the request, every task that was alive with its sender still
\* stored has had the stop signal queued on its channel.
C19_CloseStopsActiveRuns ==
    [][(ui.pc # "closed" /\ ui'.pc = "closed")
          => \A k \in TaskIds : (Alive(k) /\ tasks[k].tx) => tasks'[k].sends >= 1]_vars

\* C20: in every reachable state a slot's shutdown_tx is present exactly when
\* its status is Starting, Running or Stopping, and absent when the status is
\* Stopped or Failed.
C20_SenderIffActive ==
    \A i \in Slots :
        (shutdown_tx[i] # None) <=> (state[i].status.tag \in {"Starting", "Running", "Stopping"})

\* The step is task k writing Running: its "started" entry is appended by it.
WritesRunning(k) ==
    LET i == tasks[k].slot
    IN  /\ Len(appended'[i]) > Len(appended[i])
        /\ appended'[i][Len(appended[i]) + 1] = LogMessage_info("started", k)

\* C21: no runtime that listens on a port (http, ftp, tftp) writes Running
\* before its bind/listen step has succeeded: at the step that writes Running
\* the task holds its listener.
C21_RunningOnlyAfterBind ==
    [][\A k \in TaskIds :
          (WritesRunning(k) /\ tasks[k].slot \in {"Http", "Ftp", "Tftp"}) => tasks[k].bound]_vars

\* The positions in slot i's append history of the entries run k appended with text m.
EntriesOf(i, k, m) ==
    {p \in 1..Len(appended[i]) : appended[i][p] = LogMessage_info(m, k)}

\* The step appends, first of all, the entry with text m of run k to slot i.
Appends(i, k, m) ==
    /\ Len(appended'[i]) > Len(appended[i])
    /\ appended'[i][Len(appended[i]) + 1] = LogMessage_info(m, k)

\* C22: in every run the task writes Starting before it writes Running, and
\* each of the two writes is made together with its log entry: a step
\* appends a run's "Starting" ("started") entry exactly when it sets the
\* status to Starting (Running), and a task that writes Running has its
\* "Starting" entry in the history already.
C22_StartingBeforeRunning ==
    [][\A i \in Slots :
          /\ \A k \in TaskIds :
                /\ Appends(i, k, "Starting") => state'[i].status = Starting
                /\ Appends(i, k, "started")
                      => state'[i].status = Running /\ EntriesOf(i, k, "Starting") # {}
          /\ (state'[i].status # state[i].status /\ state'[i].status = Starting)
                => \E k \in TaskIds : Appends(i, k, "Starting")
          /\ (state'[i].status # state[i].status /\ state'[i].status = Running)
                => \E k \in TaskIds : Appends(i, k, "started")]_vars

\* C22, witness: a run has written Starting and then Running.
C22_Witness ==
    \E k \in TaskIds :
        /\ EntriesOf(tasks[k].slot, k, "started") # {}
        /\ state[tasks[k].slot].status = Running

\* C23: every write of status Error(reason) appends, in the same critical
\* section, an Error entry with that reason: whenever a slot's status has
\* just become Error(r), the newest entry of its buffer is an Error entry
\* with the text r, appended in that step.
C23_ErrorStatusHasErrorEntry ==
    [][\A i \in Slots :
          (state'[i].status # state[i].status /\ state'[i].status.tag = "Error")
              => /\ Len(appended'[i]) = Len(appended[i]) + 1
                 /\ state'[i].logs # <<>>
                 /\ LET newest == state'[i].logs[Len(state'[i].logs)]
                    IN  /\ newest = appended'[i][Len(appended'[i])]
                        /\ newest.level = "Error"
                        /\ newest.message = state'[i].status.reason]_vars

\* C23, witness: a serving run has failed: the slot is Error("serve") and the
\* newest entry of its buffer is the Error entry of that failure.
C23_Witness ==
    \E i \in Slots :
        /\ state[i].status = Error("serve")
        /\ state[i].logs # <<>>
        /\ state[i].logs[Len(state[i].logs)].level = "Error"

\* The step is the expiry of the auto-stop countdown armed by task k.
TimerExpires(k) == tasks[k].timer = "armed" /\ tasks'[k].timer = "fired"

C26_StopDoesNotWait == ui.pc = "stop_write" => ENABLED stop_server_write

\* C26, witness: stop_server has returned while the task it signalled is
\* alive and has not yet received the signal.
C26_Witness ==
    /\ ui.pc = "idle" /\ ui.ret = "stopped"
    /\ \E k \in TaskIds : Alive(k) /\ tasks[k].queued = 1 /\ tasks[k].pc = "serving"

\* The sender stored for slot i, if any, is the sender of the channel of the
\* run spawned last for slot i, and no sender of another run's channel exists.
SenderIsLatestRun(i) ==
    /\ shutdown_tx[i] # None =>
          /\ shutdown_tx[i] \in TaskIds
          /\ tasks[shutdown_tx[i]].slot = i
          /\ \A m \in TaskIds : tasks[m].slot = i => m <= shutdown_tx[i]
    /\ \A k \in TaskIds : (tasks[k].slot = i /\ tasks[k].tx) => shutdown_tx[i] = k

\* C27: each accepted start makes a fresh capacity-1 channel whose receiver
\* only the new task holds, and whose sender replaces the one stored.  A stop
\* signal is therefore queued only on the channel of the slot's latest run,
\* by stop_server on that slot, and at most one signal is ever in a channel.
C27_SignalReachesItsRunOnly ==
    [][/\ \A i \in Slots : SenderIsLatestRun(i)
       /\ \A k \in TaskIds :
             /\ tasks[k].queued <= 1
             /\ tasks'[k].queued > tasks[k].queued
                   => /\ ui.pc = "frame" /\ ui'.pc = "stop_write"
                      /\ shutdown_tx[ui.idx] = k
                      /\ tasks[k].slot = ui.idx]_vars

\* C27, witness: of two live runs of one slot, the later one has been sent
\* the stop signal and the earlier one has not.
C27_Witness ==
    /\ Len(tasks) = 2 /\ tasks[1].slot = tasks[2].slot
    /\ Alive(1) /\ Alive(2)
    /\ tasks[2].sends = 1 /\ tasks[2].queued = 1
    /\ tasks[1].sends = 0 /\ tasks[1].queued = 0

\* The step is one of the two halves of a stop_server call.
StopCallStep == (ui.pc = "frame" /\ ui'.pc = "stop_write") \/ StopReturns

\* C28: stop_server changes only the slot's status and its stored sender: no
\* log buffer changes and nothing is appended by either half of the call,
\* and no other slot's status or sender changes.
C28_StopLeavesLogs ==
    [][StopCallStep
          => /\ \A i \in Slots : state'[i].logs = state[i].logs
             /\ appended' = appended
             /\ \A i \in Slots \ {ui.idx} :
                   state'[i] = state[i] /\ shutdown_tx'[i] = shutdown_tx[i]]_vars

\* C28, witness: stop_server has returned on a slot whose run had written
\* Running: the slot is Stopping and its buffer holds exactly what the run appended.
C28_Witness ==
    /\ ui.pc = "idle" /\ ui.ret = "stopped"
    /\ \E i \in Slots :
          /\ state[i].status = Stopping
          /\ state[i].logs # <<>>
          /\ state[i].logs = appended[i]
          /\ state[i].logs[Len(state[i].logs)].message # "Starting"

\* C29: in every reachable state, a slot whose status is Running has a live
\* runtime task: Running never outlives the task that wrote it.
C29_RunningHasLiveTask ==
    \A i \in Slots : state[i].status = Running => AliveIn(i) # {}

\* C30: a task writes Stopped only if stop was called on its slot during its
\* run, that is, only if the stop signal was sent on its channel: the
\* replacement of the stored sender by a later start never makes an earlier,
\* still-alive task wind down and write Stopped.
C30_StoppedOnlyAfterStop ==
    [][\A k \in TaskIds :
          (tasks[k].result = "none" /\ tasks'[k].result = "ok") => tasks[k].sends >= 1]_vars

\* C25: the slot's state lock is never held across a suspension point: a
\* task that is at an await holds no guard, under any name, and whenever
\* every task is suspended or over the lock is free, so that the GUI
\* thread's reads (and its writes) are not kept waiting by a suspended task.
C25_NoGuardAcrossAwait ==
    /\ \A k \in TaskIds : OpAt(k).op = "await" => write_guard # Holder(tasks[k])
    /\ (\A k \in TaskIds : OpAt(k).op \in {"await", "over"}) => write_guard = ""

\* C25, witness: the server task is suspended in its serving await while
\* another task of the slot holds the write guard.
C25_Witness ==
    \E k, m \in TaskIds :
        /\ tasks[k].kind = "runtime" /\ OpAt(k).op = "await"
        /\ state[tasks[k].slot].status = Running
        /\ write_guard = Holder(tasks[m]) /\ m # k

\* C31: an auto-stop entry is appended only during the run that armed the
\* timer: when the countdown of a run that was stopped and has written
\* Stopped expires while a later run of the slot is serving, nothing is
\* appended.
C31_StaleTimerAppendsNothing ==
    [][\A k \in TaskIds :
          (/\ TimerExpires(k)
           /\ ~Alive(k) /\ tasks[k].result = "ok" /\ tasks[k].sends >= 1
           /\ \E m \in TaskIds : m > k /\ tasks[m].slot = "Http" /\ tasks[m].pc = "serving"
           /\ \A m \in TaskIds : m < k => ~Alive(m))
              => appended'["Http"] = appended["Http"]]_vars

\* The step is a call of ServerHandle::request_shutdown on handle i.
RequestStep(i) == ui.pc = "frame" /\ ui'.pc = "idle" /\ ui.idx = i

\* C32: request_shutdown returns false when no sender has been set or the
\* receiver is gone; on its capacity-1 channel it returns true only when
\* nothing is pending, queueing exactly one signal, and with a signal
\* pending it returns false and queues nothing; it changes neither the
\* handle's status nor its stored sender.
C32_RequestShutdownResult ==
    [][\A i \in Slots :
          RequestStep(i)
              => LET tx == shutdown_tx[i]
                     ret == ui'.ret
                 IN  /\ ret \in {"true", "false"}
                     /\ (tx = None \/ ~tasks[tx].rx) => ret = "false"
                     /\ (tx # None /\ tasks[tx].queued >= 1) => ret = "false"
                     /\ ret = "true" =>
                           /\ tasks[tx].queued = 0
                           /\ tasks' = [tasks EXCEPT ![tx].queued = 1, ![tx].sends = @ + 1]
                     /\ ret = "false" => tasks' = tasks
                     /\ state' = state
                     /\ shutdown_tx' = shutdown_tx]_vars

\* C32, witness: a second call with the first signal still pending has
\* returned false and queued nothing.
C32_Witness ==
    /\ ui.pc = "idle" /\ ui.ret = "false" /\ ui.took # None
    /\ tasks[ui.took].rx /\ tasks[ui.took].queued = 1 /\ tasks[ui.took].sends = 1
    /\ state[ui.idx].status = Running

====
